---- MODULE Spec2Model ----
(***************************************************************************)
(* Model of the Flask text-intelligence gateway (app.py): the handler of   *)
(* POST /text-intelligence/analyze, its input validator, option mapper,    *)
(* response formatter and fault classifier, and the remote analysis call.  *)
(* Python strings that the code inspects character by character are        *)
(* sequences of one-character strings; strings it only compares for        *)
(* equality are TLA+ strings.  Python's None is the empty sequence where   *)
(* the code only tests truthiness.                                         *)
(***************************************************************************)
EXTENDS Integers, Sequences, FiniteSets, TLC

VARIABLES pc, is_json, body, args, request_dict, options, calls, outcome,
          response, deepgram

vars == <<pc, is_json, body, args, request_dict, options, calls, outcome,
          response, deepgram>>

\* Number of requests in flight at once in the concurrent specification.
NumRequests == 2

Reqs == 1..NumRequests

(***************************************************************************)
(* String literals of app.py and of the Python runtime.                    *)
(***************************************************************************)

\* "Request must contain either 'text' or 'url' field"
MsgEither ==
    <<"R", "e", "q", "u", "e", "s", "t", " ", "m", "u", "s", "t", " ", "c", "o", "n", "t", "a", "i", "n", " ", "e", "i", "t", "h", "e", "r", " ", "'", "t", "e", "x", "t", "'", " ", "o", "r", " ", "'", "u", "r", "l", "'", " ", "f", "i", "e", "l", "d">>

\* "Request must contain either 'text' or 'url', not both"
MsgNotBoth ==
    <<"R", "e", "q", "u", "e", "s", "t", " ", "m", "u", "s", "t", " ", "c", "o", "n", "t", "a", "i", "n", " ", "e", "i", "t", "h", "e", "r", " ", "'", "t", "e", "x", "t", "'", " ", "o", "r", " ", "'", "u", "r", "l", "'", ",", " ", "n", "o", "t", " ", "b", "o", "t", "h">>

\* "Invalid URL format"
MsgInvalidUrl ==
    <<"I", "n", "v", "a", "l", "i", "d", " ", "U", "R", "L", " ", "f", "o", "r", "m", "a", "t">>

\* "Text content cannot be empty"
MsgEmptyText ==
    <<"T", "e", "x", "t", " ", "c", "o", "n", "t", "e", "n", "t", " ", "c", "a", "n", "n", "o", "t", " ", "b", "e", " ", "e", "m", "p", "t", "y">>

\* "Summarization v1 is no longer supported. Please use v2 or true."
MsgV1 ==
    <<"S", "u", "m", "m", "a", "r", "i", "z", "a", "t", "i", "o", "n", " ", "v", "1", " ", "i", "s", " ", "n", "o", " ", "l", "o", "n", "g", "e", "r", " ", "s", "u", "p", "p", "o", "r", "t", "e", "d", ".", " ", "P", "l", "e", "a", "s", "e", " ", "u", "s", "e", " ", "v", "2", " ", "o", "r", " ", "t", "r", "u", "e", ".">>

\* "Request body must be JSON"
MsgNotJson ==
    <<"R", "e", "q", "u", "e", "s", "t", " ", "b", "o", "d", "y", " ", "m", "u", "s", "t", " ", "b", "e", " ", "J", "S", "O", "N">>

\* "Text processing failed"
MsgProcessingFailed ==
    <<"T", "e", "x", "t", " ", "p", "r", "o", "c", "e", "s", "s", "i", "n", "g", " ", "f", "a", "i", "l", "e", "d">>

\* "'list' object has no attribute 'get'"
ExcListGet ==
    <<"'", "l", "i", "s", "t", "'", " ", "o", "b", "j", "e", "c", "t", " ", "h", "a", "s", " ", "n", "o", " ", "a", "t", "t", "r", "i", "b", "u", "t", "e", " ", "'", "g", "e", "t", "'">>

\* "'NoneType' object has no attribute 'get'"
ExcNoneGet ==
    <<"'", "N", "o", "n", "e", "T", "y", "p", "e", "'", " ", "o", "b", "j", "e", "c", "t", " ", "h", "a", "s", " ", "n", "o", " ", "a", "t", "t", "r", "i", "b", "u", "t", "e", " ", "'", "g", "e", "t", "'">>

\* "'int' object has no attribute 'strip'"
ExcIntStrip ==
    <<"'", "i", "n", "t", "'", " ", "o", "b", "j", "e", "c", "t", " ", "h", "a", "s", " ", "n", "o", " ", "a", "t", "t", "r", "i", "b", "u", "t", "e", " ", "'", "s", "t", "r", "i", "p", "'">>

\* "'int' object has no attribute 'startswith'"
ExcIntStartswith ==
    <<"'", "i", "n", "t", "'", " ", "o", "b", "j", "e", "c", "t", " ", "h", "a", "s", " ", "n", "o", " ", "a", "t", "t", "r", "i", "b", "u", "t", "e", " ", "'", "s", "t", "a", "r", "t", "s", "w", "i", "t", "h", "'">>

\* "http://"
PrefixHttp ==
    <<"h", "t", "t", "p", ":", "/", "/">>

\* "https://"
PrefixHttps ==
    <<"h", "t", "t", "p", "s", ":", "/", "/">>

\* "text"
NeedleText ==
    <<"t", "e", "x", "t">>

\* "url"
NeedleUrl ==
    <<"u", "r", "l">>

\* "too long"
NeedleTooLong ==
    <<"t", "o", "o", " ", "l", "o", "n", "g">>

\* "hello"
TxtHello ==
    <<"h", "e", "l", "l", "o">>

\* " hi "
TxtPadded ==
    <<" ", "h", "i", " ">>

\* "  "
TxtBlank ==
    <<" ", " ">>

\* "http://x"
UrlHttp ==
    <<"h", "t", "t", "p", ":", "/", "/", "x">>

\* "https://x"
UrlHttps ==
    <<"h", "t", "t", "p", "s", ":", "/", "/", "x">>

\* "ftp://x"
UrlFtp ==
    <<"f", "t", "p", ":", "/", "/", "x">>

\* "HTTP://x"
UrlUpper ==
    <<"H", "T", "T", "P", ":", "/", "/", "x">>

\* "http:/x"
UrlNear ==
    <<"h", "t", "t", "p", ":", "/", "x">>

\* "too long"
FaultTooLong ==
    <<"t", "o", "o", " ", "l", "o", "n", "g">>

\* "Input Too Long"
FaultInputTooLong ==
    <<"I", "n", "p", "u", "t", " ", "T", "o", "o", " ", "L", "o", "n", "g">>

\* "Text is too long"
FaultTextTooLong ==
    <<"T", "e", "x", "t", " ", "i", "s", " ", "t", "o", "o", " ", "l", "o", "n", "g">>

\* "URL body too long"
FaultUrlTooLong ==
    <<"U", "R", "L", " ", "b", "o", "d", "y", " ", "t", "o", "o", " ", "l", "o", "n", "g">>

\* "Invalid text"
FaultBadText ==
    <<"I", "n", "v", "a", "l", "i", "d", " ", "t", "e", "x", "t">>

\* "Bad context"
FaultContext ==
    <<"B", "a", "d", " ", "c", "o", "n", "t", "e", "x", "t">>

\* "Could not fetch url"
FaultFetchUrl ==
    <<"C", "o", "u", "l", "d", " ", "n", "o", "t", " ", "f", "e", "t", "c", "h", " ", "u", "r", "l">>

\* "Unauthorized"
FaultUnauthorized ==
    <<"U", "n", "a", "u", "t", "h", "o", "r", "i", "z", "e", "d">>

\* "timed out"
FaultTimeout ==
    <<"t", "i", "m", "e", "d", " ", "o", "u", "t">>

(***************************************************************************)
(* Python string operations used by the code.                              *)
(***************************************************************************)

UpperLetters ==
    <<"A", "B", "C", "D", "E", "F", "G", "H", "I", "J", "K", "L", "M",
      "N", "O", "P", "Q", "R", "S", "T", "U", "V", "W", "X", "Y", "Z">>

LowerLetters ==
    <<"a", "b", "c", "d", "e", "f", "g", "h", "i", "j", "k", "l", "m",
      "n", "o", "p", "q", "r", "s", "t", "u", "v", "w", "x", "y", "z">>

LowerChar(c) ==
    IF \E i \in 1..26 : UpperLetters[i] = c
    THEN LowerLetters[CHOOSE i \in 1..26 : UpperLetters[i] = c]
    ELSE c

\* str.lower()
Lower(s) == [i \in 1..Len(s) |-> LowerChar(s[i])]

\* sub in s
Contains(s, sub) ==
    \E i \in 0..(Len(s) - Len(sub)) : SubSeq(s, i + 1, i + Len(sub)) = sub

\* s.startswith(prefix)
StartsWith(s, prefix) ==
    /\ Len(s) >= Len(prefix)
    /\ SubSeq(s, 1, Len(prefix)) = prefix

Whitespace == {" ", "\t", "\n"}

\* s.strip()
Strip(s) ==
    LET keep == {i \in 1..Len(s) : s[i] \notin Whitespace}
    IN  IF keep = {} THEN <<>>
        ELSE LET lo == CHOOSE i \in keep : \A j \in keep : i <= j
                 hi == CHOOSE i \in keep : \A j \in keep : i >= j
             IN  SubSeq(s, lo, hi)

(***************************************************************************)
(* JSON values of the body fields: a field is absent, null, the number 0,  *)
(* a non-zero number, or a string.                                         *)
(***************************************************************************)

Absent == [kind |-> "absent", s |-> <<>>]
JNull == [kind |-> "null", s |-> <<>>]
JZero == [kind |-> "zero", s |-> <<>>]
JInt == [kind |-> "int", s |-> <<>>]
JStr(s) == [kind |-> "str", s |-> s]

\* Python truthiness of body.get(key)
Truthy(v) == v.kind = "int" \/ (v.kind = "str" /\ v.s # <<>>)

\* None (no dict, no message)
None == <<>>

(***************************************************************************)
(* validate_text_input                                                     *)
(***************************************************************************)

Raised(msg) ==
    [exc |-> TRUE, exc_msg |-> msg, request_dict |-> None, error_msg |-> None]

Returned(rd, err) ==
    [exc |-> FALSE, exc_msg |-> None, request_dict |-> rd, error_msg |-> err]

\* Variant: the url and text branches return without their format checks.
validate_text_input_unchecked(b) ==
    IF b.kind = "array" THEN Raised(ExcListGet)
    ELSE IF b.kind = "null" THEN Raised(ExcNoneGet)
    ELSE
      LET text == b.text
          url == b.url
      IN  IF ~Truthy(text) /\ ~Truthy(url) THEN Returned(None, MsgEither)
          ELSE IF Truthy(text) /\ Truthy(url) THEN Returned(None, MsgNotBoth)
          ELSE IF Truthy(url)
               THEN IF url.kind # "str" THEN Raised(ExcIntStartswith)
                    ELSE Returned("url" :> url.s, None)
               ELSE IF text.kind # "str" THEN Raised(ExcIntStrip)
                    ELSE Returned("text" :> text.s, None)

validate_text_input(b) ==
    IF b.kind = "array" THEN Raised(ExcListGet)
    ELSE IF b.kind = "null" THEN Raised(ExcNoneGet)
    ELSE
      LET text == b.text
          url == b.url
      IN  IF ~Truthy(text) /\ ~Truthy(url) THEN Returned(None, MsgEither)
          ELSE IF Truthy(text) /\ Truthy(url) THEN Returned(None, MsgNotBoth)
          ELSE IF Truthy(url)
               THEN IF url.kind # "str" THEN Raised(ExcIntStartswith)
                    ELSE IF ~(StartsWith(url.s, PrefixHttp)
                              \/ StartsWith(url.s, PrefixHttps))
                         THEN Returned(None, MsgInvalidUrl)
                         ELSE Returned("url" :> url.s, None)
               ELSE IF text.kind # "str" THEN Raised(ExcIntStrip)
                    ELSE IF Strip(text.s) = <<>>
                         THEN Returned(None, MsgEmptyText)
                         ELSE Returned("text" :> text.s, None)

(***************************************************************************)
(* build_deepgram_options                                                  *)
(***************************************************************************)

\* Python values stored in the options dict
PyTrue == [type |-> "bool", val |-> "True"]
PyStr(s) == [type |-> "str", val |-> s]

\* query_params.get(key, default)
Get(q, key, default) == IF key \in DOMAIN q THEN q[key] ELSE default

\* query_params.get(key) == value
GetIs(q, key, value) == key \in DOMAIN q /\ q[key] = value

\* Variant: a flag is enabled by any non-empty value.
FlagAnyValue(q, key) ==
    IF key \in DOMAIN q /\ q[key] # "" THEN key :> PyTrue ELSE <<>>

Flag(q, key) == IF GetIs(q, key, "true") THEN key :> PyTrue ELSE <<>>

build_deepgram_options(q) ==
    LET language == "language" :> PyStr(Get(q, "language", "en"))
        summarize == IF GetIs(q, "summarize", "true")
                       THEN "summarize" :> PyTrue
                     ELSE IF GetIs(q, "summarize", "v2")
                       THEN "summarize" :> PyStr("v2")
                     ELSE <<>>
    IN  IF GetIs(q, "summarize", "v1")
        THEN [options |-> None, error_msg |-> MsgV1]
        ELSE [options |-> language @@ summarize @@ Flag(q, "topics")
                          @@ Flag(q, "sentiment") @@ Flag(q, "intents"),
              error_msg |-> None]

(***************************************************************************)
(* format_error_response and the responses of analyze                      *)
(***************************************************************************)

format_error_response(error_type, code, message) ==
    "error" :> [type |-> error_type, code |-> code, message |-> message,
                details |-> <<>>]

Response(status, payload) == [status |-> status, body |-> payload]

\* Variant: the fault's own message is surfaced whatever the status.
handle_exception_raw(e) ==
    LET low == Lower(e)
        matched == \/ Contains(low, NeedleText)
                   \/ Contains(low, NeedleUrl)
                   \/ Contains(low, NeedleTooLong)
    IN  Response(IF matched THEN 400 ELSE 500,
                 format_error_response("processing_error",
                     IF Contains(low, NeedleText) THEN "INVALID_TEXT"
                     ELSE IF Contains(low, NeedleUrl) THEN "INVALID_URL"
                     ELSE IF Contains(low, NeedleTooLong) THEN "TEXT_TOO_LONG"
                     ELSE "INVALID_TEXT", e))

\* Variant: the error envelope is returned without its status code, which
\* Flask sends as 200.
handle_exception_no_status(e) ==
    LET low == Lower(e)
    IN  Response(200,
                 format_error_response("processing_error",
                     IF Contains(low, NeedleText) THEN "INVALID_TEXT"
                     ELSE IF Contains(low, NeedleUrl) THEN "INVALID_URL"
                     ELSE IF Contains(low, NeedleTooLong) THEN "TEXT_TOO_LONG"
                     ELSE "INVALID_TEXT", e))

\* The except-block of analyze: classification of a fault by its message.
handle_exception(e) ==
    LET low == Lower(e)
        branch == IF Contains(low, NeedleText) THEN "text"
                  ELSE IF Contains(low, NeedleUrl) THEN "url"
                  ELSE IF Contains(low, NeedleTooLong) THEN "too long"
                  ELSE "default"
        error_code == CASE branch = "text" -> "INVALID_TEXT"
                        [] branch = "url" -> "INVALID_URL"
                        [] branch = "too long" -> "TEXT_TOO_LONG"
                        [] OTHER -> "INVALID_TEXT"
        status_code == IF branch = "default" THEN 500 ELSE 400
    IN  Response(status_code,
                 format_error_response("processing_error", error_code,
                     IF status_code = 400 THEN e ELSE MsgProcessingFailed))

\* Lines 190-219 of analyze: everything before the remote call.
analyze_local(j, b, q) ==
    LET v == validate_text_input(b)
        o == build_deepgram_options(q)
        Reply(resp) == [respond |-> TRUE, response |-> resp,
                        request_dict |-> None, options |-> None]
    IN  IF ~j
        THEN Reply(Response(400, format_error_response(
                       "validation_error", "INVALID_TEXT", MsgNotJson)))
        ELSE IF v.exc THEN Reply(handle_exception(v.exc_msg))
        ELSE IF v.error_msg # None
        THEN Reply(Response(400, format_error_response(
                       "validation_error",
                       IF Contains(Lower(v.error_msg), NeedleText)
                       THEN "INVALID_TEXT" ELSE "INVALID_URL",
                       v.error_msg)))
        ELSE IF o.error_msg # None
        THEN Reply(Response(400, format_error_response(
                       "validation_error", "INVALID_TEXT", o.error_msg)))
        ELSE [respond |-> FALSE, response |-> Response(0, None),
              request_dict |-> v.request_dict, options |-> o.options]

(***************************************************************************)
(* The remote analysis service: it answers a call with a response object   *)
(* of one of the shapes analyze can convert, or raises a fault.            *)
(***************************************************************************)

NoOutcome == [kind |-> "none", msg |-> None, has_results |-> FALSE,
              results |-> <<>>]

Fault(msg) == [kind |-> "fault", msg |-> msg, has_results |-> FALSE,
               results |-> <<>>]

Result(kind, has, data) == [kind |-> kind, msg |-> None, has_results |-> has,
                            results |-> data]

\* Lines 227-239 and 241-266 of analyze: everything after the remote call.
analyze_finish(out) ==
    CASE out.kind = "fault" -> handle_exception(out.msg)
      [] out.kind = "to_dict" ->
           \* results.to_dict() if results has to_dict, else {}
           Response(200, "results" :>
               (IF out.has_results THEN out.results ELSE <<>>))
      [] out.kind = "model_dump" ->
           \* model_dump().get('results', {})
           Response(200, "results" :>
               (IF out.has_results THEN out.results ELSE <<>>))
      [] OTHER ->
           \* dict(results) if the object has results, else {}
           Response(200, "results" :>
               (IF out.has_results THEN out.results ELSE <<>>))

(***************************************************************************)
(* Inputs                                                                  *)
(***************************************************************************)

TextValues ==
    {Absent, JNull, JZero, JInt, JStr(<<>>), JStr(TxtBlank), JStr(TxtHello),
     JStr(TxtPadded)}

UrlValues ==
    {Absent, JNull, JInt, JStr(<<>>), JStr(UrlHttp), JStr(UrlHttps),
     JStr(UrlFtp), JStr(UrlUpper), JStr(UrlNear)}

Object(text, url) == [kind |-> "object", text |-> text, url |-> url]
NonObject(kind) == [kind |-> kind, text |-> Absent, url |-> Absent]

Bodies ==
    {Object(t, u) : t \in TextValues, u \in UrlValues}
    \cup {NonObject("array"), NonObject("null")}

QueryKeys == {"language", "summarize", "topics", "sentiment", "intents"}

QueryValues(k) ==
    CASE k = "language" -> {"es", ""}
      [] k = "summarize" -> {"true", "v2", "v1", "false", "True"}
      [] k = "topics" -> {"true", "false"}
      [] k = "sentiment" -> {"true", "1"}
      [] k = "intents" -> {"true", "TRUE"}

AllQueryValues == UNION {QueryValues(k) : k \in QueryKeys}

Queries ==
    UNION {{q \in [K -> AllQueryValues] : \A k \in K : q[k] \in QueryValues(k)}
           : K \in SUBSET QueryKeys}

HttpRequests ==
    {[is_json |-> TRUE, body |-> b, args |-> q] : b \in Bodies, q \in Queries}
    \cup {[is_json |-> FALSE, body |-> NonObject("null"), args |-> q]
          : q \in Queries}

ResultData == "summary" :> "text"

Outcomes ==
    {Fault(m) : m \in {FaultTooLong, FaultInputTooLong, FaultTextTooLong,
                       FaultUrlTooLong, FaultBadText, FaultContext,
                       FaultFetchUrl, FaultUnauthorized, FaultTimeout}}
    \cup {Result(k, h, ResultData)
          : k \in {"to_dict", "model_dump", "plain"}, h \in BOOLEAN}

\* The inputs of the concurrent specification.
SmallRequests ==
    {[is_json |-> TRUE, body |-> Object(JStr(TxtHello), Absent),
      args |-> <<>>],
     [is_json |-> TRUE, body |-> Object(Absent, JStr(UrlHttps)),
      args |-> ("summarize" :> "v2")],
     [is_json |-> TRUE, body |-> Object(JStr(TxtHello), Absent),
      args |-> ("summarize" :> "v1")],
     [is_json |-> TRUE, body |-> Object(Absent, JStr(UrlFtp)),
      args |-> ("topics" :> "true")]}

SmallOutcomes ==
    {Fault(FaultTooLong), Fault(FaultTimeout),
     Result("to_dict", TRUE, ResultData)}

(***************************************************************************)
(* State machine                                                           *)
(***************************************************************************)

NoResponse == Response(0, None)

Handle == [api_key |-> "DEEPGRAM_API_KEY"]

InitFor(R) ==
    /\ pc = [r \in R |-> "idle"]
    /\ is_json = [r \in R |-> FALSE]
    /\ body = [r \in R |-> NonObject("null")]
    /\ args = [r \in R |-> <<>>]
    /\ request_dict = [r \in R |-> None]
    /\ options = [r \in R |-> None]
    /\ calls = [r \in R |-> <<>>]
    /\ outcome = [r \in R |-> NoOutcome]
    /\ response = [r \in R |-> NoResponse]
    /\ deepgram = Handle

\* A client sends POST /text-intelligence/analyze.
Arrive(r, requests) ==
    /\ pc[r] = "idle"
    /\ \E req \in requests :
         /\ is_json' = [is_json EXCEPT ![r] = req.is_json]
         /\ body' = [body EXCEPT ![r] = req.body]
         /\ args' = [args EXCEPT ![r] = req.args]
    /\ pc' = [pc EXCEPT ![r] = "received"]
    /\ UNCHANGED <<request_dict, options, calls, outcome, response, deepgram>>

\* Variant: the remote call is issued as soon as the body is valid, before
\* the query parameters are checked.
AnalyzeBeginCallFirst(r) ==
    /\ pc[r] = "received"
    /\ LET a == analyze_local(is_json[r], body[r], args[r])
           v == validate_text_input(body[r])
           bodyOk == is_json[r] /\ ~v.exc /\ v.error_msg = None
       IN  /\ calls' = [calls EXCEPT ![r] =
                          IF bodyOk
                          THEN Append(@, [client |-> deepgram,
                                          request |-> v.request_dict,
                                          options |-> a.options])
                          ELSE @]
           /\ IF a.respond
              THEN /\ response' = [response EXCEPT ![r] = a.response]
                   /\ pc' = [pc EXCEPT ![r] = "responded"]
                   /\ UNCHANGED <<request_dict, options>>
              ELSE /\ request_dict' = [request_dict EXCEPT
                                         ![r] = a.request_dict]
                   /\ options' = [options EXCEPT ![r] = a.options]
                   /\ pc' = [pc EXCEPT ![r] = "calling"]
                   /\ UNCHANGED response
    /\ UNCHANGED <<is_json, body, args, outcome, deepgram>>

\* Variant: the query parameters are read from a slot shared by all
\* requests (the one of the first request in flight).
AnalyzeBeginSharedArgs(r) ==
    /\ pc[r] = "received"
    /\ LET first == CHOOSE s \in DOMAIN pc :
                        /\ pc[s] # "idle"
                        /\ \A t \in DOMAIN pc : pc[t] # "idle" => s <= t
           a == analyze_local(is_json[r], body[r], args[first])
       IN  IF a.respond
           THEN /\ response' = [response EXCEPT ![r] = a.response]
                /\ pc' = [pc EXCEPT ![r] = "responded"]
                /\ UNCHANGED <<request_dict, options, calls>>
           ELSE /\ request_dict' = [request_dict EXCEPT ![r] = a.request_dict]
                /\ options' = [options EXCEPT ![r] = a.options]
                /\ calls' = [calls EXCEPT ![r] = Append(@,
                                [client |-> deepgram,
                                 request |-> a.request_dict,
                                 options |-> a.options])]
                /\ pc' = [pc EXCEPT ![r] = "calling"]
                /\ UNCHANGED response
    /\ UNCHANGED <<is_json, body, args, outcome, deepgram>>

\* analyze up to the remote call: it answers 400/500 itself or issues the call.
AnalyzeBegin(r) ==
    /\ pc[r] = "received"
    /\ LET a == analyze_local(is_json[r], body[r], args[r])
       IN  IF a.respond
           THEN /\ response' = [response EXCEPT ![r] = a.response]
                /\ pc' = [pc EXCEPT ![r] = "responded"]
                /\ UNCHANGED <<request_dict, options, calls>>
           ELSE /\ request_dict' = [request_dict EXCEPT ![r] = a.request_dict]
                /\ options' = [options EXCEPT ![r] = a.options]
                /\ calls' = [calls EXCEPT ![r] = Append(@,
                                [client |-> deepgram,
                                 request |-> a.request_dict,
                                 options |-> a.options])]
                /\ pc' = [pc EXCEPT ![r] = "calling"]
                /\ UNCHANGED response
    /\ UNCHANGED <<is_json, body, args, outcome, deepgram>>

\* The remote service answers the call of request r or raises a fault.
RemoteReply(r, outcomes) ==
    /\ pc[r] = "calling"
    /\ \E out \in outcomes : outcome' = [outcome EXCEPT ![r] = out]
    /\ pc' = [pc EXCEPT ![r] = "replied"]
    /\ UNCHANGED <<is_json, body, args, request_dict, options, calls,
                   response, deepgram>>

\* analyze after the remote call: success envelope or classified fault.
AnalyzeFinish(r) ==
    /\ pc[r] = "replied"
    /\ response' = [response EXCEPT ![r] = analyze_finish(outcome[r])]
    /\ pc' = [pc EXCEPT ![r] = "responded"]
    /\ UNCHANGED <<is_json, body, args, request_dict, options, calls,
                   outcome, deepgram>>

\* One request, every input.
Init == InitFor({1})

Next ==
    \/ Arrive(1, HttpRequests)
    \/ AnalyzeBegin(1)
    \/ RemoteReply(1, Outcomes)
    \/ AnalyzeFinish(1)

Spec == Init /\ [][Next]_vars

\* NumRequests requests in flight at once, interleaved in every order.
InitConc == InitFor(Reqs)

NextConc ==
    \E r \in Reqs :
        \/ Arrive(r, SmallRequests)
        \/ AnalyzeBegin(r)
        \/ RemoteReply(r, SmallOutcomes)
        \/ AnalyzeFinish(r)

SpecConc == InitConc /\ [][NextConc]_vars

(***************************************************************************)
(* Properties                                                              *)
(***************************************************************************)

Requests == DOMAIN pc

Responded(r) == pc[r] = "responded"

IsError(r) == DOMAIN response[r].body = {"error"}

IsSuccess(r) == DOMAIN response[r].body = {"results"}

Err(r) == response[r].body["error"]

IsValidationError(r) ==
    Responded(r) /\ IsError(r) /\ Err(r).type = "validation_error"

HasKey(q, key, value) == key \in DOMAIN q /\ q[key] = value

\* C1: a request that ends in a validation_error has status 400 and the
\* remote call was never made for it; a non-JSON body and summarize=v1 end
\* that way.
C1_ValidationErrorsAreLocal ==
    \A r \in Requests :
        /\ IsValidationError(r)
             => calls[r] = <<>> /\ response[r].status = 400
        /\ Responded(r) /\ ~is_json[r] => IsValidationError(r)
        /\ HasKey(args[r], "summarize", "v1") => calls[r] = <<>>

C1_Witness ==
    /\ IsValidationError(1)
    /\ Err(1).message = MsgV1
    /\ body[1] = Object(JStr(TxtHello), Absent)

\* C2: every request passed to the remote call holds exactly one of the keys
\* text and url; a text is non-empty after trimming, a url starts with
\* http:// or https://.
C2_RemoteRequestWellFormed ==
    \A r \in Requests :
        \A i \in 1..Len(calls[r]) :
            LET req == calls[r][i].request
            IN  /\ DOMAIN req = {"text"} \/ DOMAIN req = {"url"}
                /\ DOMAIN req = {"text"} =>
                     \E k \in 1..Len(req["text"]) :
                         req["text"][k] \notin {" ", "\t", "\n"}
                /\ DOMAIN req = {"url"} =>
                     \/ StartsWith(req["url"], PrefixHttp)
                     \/ StartsWith(req["url"], PrefixHttps)

C2_Witness ==
    /\ Len(calls[1]) = 1
    /\ calls[1][1].request = ("url" :> UrlHttps)
    /\ body[1].text = JStr(<<>>)

\* C3: a JSON body that contains both a text field and a url field (string
\* values, the empty string included) is answered with status 400 and type
\* validation_error.
C3_BothFieldsRejected ==
    \A r \in Requests :
        ( /\ Responded(r)
          /\ is_json[r]
          /\ body[r].kind = "object"
          /\ body[r].text.kind = "str"
          /\ body[r].url.kind = "str" )
        => /\ response[r].status = 400
           /\ IsError(r)
           /\ Err(r).type = "validation_error"

\* C4: a JSON body with neither text nor url, or with a text that is empty
\* or whitespace-only (beside no url or a string url), is answered with
\* status 400 and code INVALID_TEXT.
C4_MissingOrBlankTextRejected ==
    \A r \in Requests :
        ( /\ Responded(r)
          /\ is_json[r]
          /\ body[r].kind = "object"
          /\ body[r].url.kind \in {"absent", "str"}
          /\ \/ body[r].text = Absent /\ body[r].url = Absent
             \/ /\ body[r].text.kind = "str"
                /\ \A k \in 1..Len(body[r].text.s) :
                       body[r].text.s[k] \in {" ", "\t", "\n"} )
        => /\ response[r].status = 400
           /\ IsError(r)
           /\ Err(r).code = "INVALID_TEXT"

\* C5: a JSON body with a url field and no text field, whose url does not
\* start with http:// or https://, is answered with status 400 and code
\* INVALID_URL.
C5_BadSchemeRejected ==
    \A r \in Requests :
        ( /\ Responded(r)
          /\ is_json[r]
          /\ body[r].kind = "object"
          /\ body[r].text = Absent
          /\ body[r].url.kind = "str"
          /\ ~StartsWith(body[r].url.s, PrefixHttp)
          /\ ~StartsWith(body[r].url.s, PrefixHttps) )
        => /\ response[r].status = 400
           /\ IsError(r)
           /\ Err(r).code = "INVALID_URL"

\* The reference mapping of query parameters to options.
ReferenceOptions(q, b) ==
    IF HasKey(q, "summarize", "v1")
    THEN b.error_msg = MsgV1 /\ b.options = None
    ELSE /\ b.error_msg = None
         /\ DOMAIN b.options \subseteq QueryKeys
         /\ "language" \in DOMAIN b.options
         /\ b.options["language"].type = "str"
         /\ b.options["language"].val =
                (IF "language" \in DOMAIN q THEN q["language"] ELSE "en")
         /\ "summarize" \in DOMAIN b.options
              <=> (HasKey(q, "summarize", "true") \/ HasKey(q, "summarize", "v2"))
         /\ HasKey(q, "summarize", "true")
              => b.options["summarize"] = [type |-> "bool", val |-> "True"]
         /\ HasKey(q, "summarize", "v2")
              => b.options["summarize"] = [type |-> "str", val |-> "v2"]
         /\ \A k \in {"topics", "sentiment", "intents"} :
              /\ k \in DOMAIN b.options <=> HasKey(q, k, "true")
              /\ k \in DOMAIN b.options
                   => b.options[k] = [type |-> "bool", val |-> "True"]

\* C6: build_deepgram_options returns the reference mapping for every set of
\* query parameters, the remote call receives exactly those options, and
\* with no query parameters it receives exactly {language: "en"}.
C6_OptionsMatchReference ==
    \A r \in Requests :
        pc[r] # "idle" =>
            LET b == build_deepgram_options(args[r])
            IN  /\ ReferenceOptions(args[r], b)
                /\ \A i \in 1..Len(calls[r]) :
                     /\ calls[r][i].options = b.options
                     /\ ~HasKey(args[r], "summarize", "v1")
                     /\ args[r] = <<>> =>
                          calls[r][i].options =
                              ("language" :> [type |-> "str", val |-> "en"])
                /\ IsValidationError(r) /\ Err(r).message = MsgV1
                     => HasKey(args[r], "summarize", "v1")

C6_Witness ==
    /\ Len(calls[1]) = 1
    /\ args[1] = ("summarize" :> "true") @@ ("topics" :> "true")
                 @@ ("intents" :> "TRUE")
    /\ DOMAIN calls[1][1].options = {"language", "summarize", "topics"}

\* C7: a remote fault whose message contains "too long" is answered with
\* status 400, code TEXT_TOO_LONG and the fault's message.
C7_TooLongClassified ==
    \A r \in Requests :
        ( /\ Responded(r)
          /\ outcome[r].kind = "fault"
          /\ Contains(outcome[r].msg, NeedleTooLong) )
        => /\ response[r].status = 400
           /\ IsError(r)
           /\ Err(r).code = "TEXT_TOO_LONG"
           /\ Err(r).message = outcome[r].msg

\* C8: every response with status 500 is the same fixed envelope
\* (processing_error, INVALID_TEXT, the generic message), so a fault's own
\* message reaches the client only with status 400.
C8_GenericBodyOn500 ==
    \A r \in Requests :
        Responded(r) =>
            /\ response[r].status = 500 =>
                 response[r].body =
                     ("error" :> [type |-> "processing_error",
                                  code |-> "INVALID_TEXT",
                                  message |-> MsgProcessingFailed,
                                  details |-> <<>>])
            /\ ( /\ outcome[r].kind = "fault"
                 /\ IsError(r)
                 /\ Err(r).message = outcome[r].msg )
               => response[r].status = 400

C8_Witness ==
    /\ Responded(1)
    /\ response[1].status = 500
    /\ outcome[1] = Fault(FaultUnauthorized)

\* C9: a response is either 200 with a success envelope or 400/500 with an
\* error envelope of the four fields; validation_error implies 400 and 500
\* implies processing_error.
C9_ResponseShapes ==
    \A r \in Requests :
        Responded(r) =>
            \/ response[r].status = 200 /\ IsSuccess(r)
            \/ /\ response[r].status \in {400, 500}
               /\ IsError(r)
               /\ DOMAIN Err(r) = {"type", "code", "message", "details"}
               /\ Err(r).type \in {"validation_error", "processing_error"}
               /\ Err(r).type = "validation_error" => response[r].status = 400
               /\ response[r].status = 500 => Err(r).type = "processing_error"

C9_Witness ==
    /\ Responded(1)
    /\ response[1].status = 400
    /\ Err(1).type = "processing_error"
    /\ outcome[1] = Fault(FaultFetchUrl)

\* What a request's own body, query parameters and remote outcome determine.
OwnCalls(r) ==
    LET a == analyze_local(is_json[r], body[r], args[r])
    IN  IF a.respond THEN <<>>
        ELSE <<[client |-> Handle, request |-> a.request_dict,
                options |-> a.options]>>

OwnResponse(r) ==
    LET a == analyze_local(is_json[r], body[r], args[r])
    IN  IF a.respond THEN a.response ELSE analyze_finish(outcome[r])

\* C10: under every interleaving, the remote call and the response of a
\* request are determined by its own body, query parameters and remote
\* outcome, a request that has not arrived has no state written by another,
\* and the shared client handle keeps its initial value.
C10_RequestsIsolated ==
    /\ deepgram = Handle
    /\ \A r \in Requests :
        /\ pc[r] \in {"idle", "received"} =>
             /\ calls[r] = <<>>
             /\ request_dict[r] = None
             /\ options[r] = None
             /\ outcome[r] = NoOutcome
             /\ response[r] = NoResponse
        /\ pc[r] \in {"calling", "replied", "responded"} =>
             calls[r] = OwnCalls(r)
        /\ pc[r] \in {"calling", "replied"} => response[r] = NoResponse
        /\ Responded(r) => response[r] = OwnResponse(r)

C10_Witness ==
    /\ Responded(1)
    /\ response[1].status = 200
    /\ pc[2] = "replied"
    /\ outcome[2] = Fault(FaultTimeout)
    /\ args[1] # args[2]

====
